---- MODULE Spec2Model ----
(***************************************************************************)
(* Order execution engine: POST /api/orders/execute enqueues a job on the  *)
(* bullmq queue "orders"; a worker (concurrency 10, limiter 100 / 60 s,    *)
(* 3 attempts, exponential backoff) runs the lifecycle                     *)
(* pending -> routing -> building -> submitted -> confirmed | failed,      *)
(* emitting every step on the in-process EventEmitter orderEvents, which   *)
(* the websocket handler forwards to subscribed sockets.                   *)
(***************************************************************************)
EXTENDS Integers, Sequences, FiniteSets, TLC

(* ------------------------------ bounds --------------------------------- *)
\* order ids 1..MaxOrders
MaxOrders == 2
\* websocket connections explored
MaxSockets == 2
\* subscribe messages one connection may send
MaxSubs == 2
\* jobs waiting in the queue at once, in the runs that count jobs
MaxQueue == 1
\* retries being delayed at once, in the runs that count jobs
MaxRetrying == 1

(* ------------------------- program constants --------------------------- *)
\* ordersQueue.add(..., { attempts: 3 })
Attempts == 3
\* backoff: { type: 'exponential', delay: 1000 }
BackoffDelay == 1000
\* worker option concurrency: 10
Concurrency == 10
\* worker option limiter.max
LimiterMax == 100
\* worker option limiter.duration (ms)
LimiterDuration == 60000
\* prices are fixed-point: MockDexRouter.basePrice (100) is 100 * PriceScale
PriceScale == 100000

OrderIds == 1..MaxOrders
Socks == 1..MaxSockets

(* --------------------------- JavaScript values -------------------------- *)
\* a field of the request body: absent, a string or a number
Undefined == [t |-> "undefined"]
Str(v) == [t |-> "string", v |-> v]
Num(v) == [t |-> "number", v |-> v]
\* !x
Falsy(x) == \/ x.t = "undefined"
            \/ (x.t = "string" /\ x.v = "")
            \/ (x.t = "number" /\ x.v = 0)

\* Number(x) of a number or of undefined (NaN)
Number(x) == IF x.t = "number" THEN x ELSE [t |-> "NaN"]

\* request bodies tried by POST /api/orders/execute; NoBody is a request without body
NoBody == [none |-> TRUE]
Bodies ==
  { [tokenIn |-> ti, tokenOut |-> to, amount |-> am, type |-> Undefined] :
      ti \in {Undefined, Str("USDC")},
      to \in {Undefined, Str(""), Str("SOL")},
      am \in {Undefined, Num(0), Num(100), Num(0 - 5)} }
  \cup {NoBody}

NoJob == [none |-> TRUE]
NoRow == [absent |-> TRUE]
NoQuote == [dex |-> "none", price |-> 0, fee |-> 0]
NoResult == [none |-> TRUE]

(* ------------------------------- state --------------------------------- *)
VARIABLES
  nextId,        \* genId(): ids handed out so far + 1
  lastReply,     \* the reply to the last POST /api/orders/execute
  issued,        \* the order ids returned in 202 replies, in order
  inflight,      \* orders built by a POST handler that awaits ordersQueue.add
  jobData,       \* job.data of job j (the Order), NoJob before it is added
  jobState,      \* bullmq state of job j: none, wait, active, delayed, completed, failed
  wait,          \* bullmq wait list (FIFO of job ids)
  delayed,       \* remaining delay (ms) of a delayed job
  waited,        \* ms a delayed job has been waiting since its attempt failed
  attemptsMade,  \* job.attemptsMade
  limCount,      \* limiter key: starts counted in the current limiter window
  limTtl,        \* limiter key: ms until the key expires
  pc,            \* position of the processor of job j
  rQ, mQ,        \* quotes returned so far in this attempt
  chosen,        \* the chosen quote of this attempt
  res,           \* executeSwap result or error of this attempt
  lateWrites,    \* un-awaited updateOrderStatus calls of worker.on('failed') still in flight
  db,            \* table orders, keyed by order_id
  dbUp,          \* whether a query of the pool succeeds now
  logs,          \* utils/logger.ts logs
  listeners,     \* orderEvents: event name (order id) -> registered handlers, in order
  sock,          \* websocket connections: readyState, subscribedId, subs (the order ids
                 \* subscribed to), inbox (messages sent to the client), early (the
                 \* ids subscribed to before their job was picked up)
  published,     \* the events emitted so far under each order id, in order
  gWait,         \* jobs in the wait list, counted (the runs that count jobs)
  gActive,       \* jobs being processed, counted
  gStarted,      \* parity of the number of starts so far
  gDelayed,      \* the remaining delays (ms) of the delayed jobs
  probe          \* an observer counting the starts of one 60 s window

vars == <<nextId, lastReply, issued, inflight, jobData, jobState, wait, delayed, waited, attemptsMade,
          limCount, limTtl, pc, rQ, mQ, chosen, res, lateWrites, db, dbUp, logs,
          listeners, sock, published, gWait, gActive, gStarted, gDelayed, probe>>

gateVars == <<gWait, gActive, gStarted, gDelayed, probe>>

(* ------------------------------ database -------------------------------- *)
\* getOrder: SELECT * FROM orders WHERE order_id = $1; NoRow is null (404)
getOrder(orderId) == db[orderId]

\* mutant: nothing is inserted
saveOrder_NoInsert(table, order, ok) == table

\* saveOrder: INSERT ... ON CONFLICT (order_id) DO NOTHING; a failed query is
\* caught and logged, the table is left as it was
saveOrder(table, order, ok) ==
  IF ok /\ table[order.orderId] = NoRow
  THEN [table EXCEPT ![order.orderId] =
          [order_id |-> order.orderId, token_in |-> order.tokenIn,
           token_out |-> order.tokenOut, amount |-> order.amount,
           order_type |-> order.type, status |-> "pending",
           chosen_dex |-> "", tx_hash |-> "", executed_price |-> {},
           error_message |-> ""]]
  ELSE table

\* the optional argument `data`; "" and {} stand for an absent field
NoData == [chosenDex |-> "", txHash |-> "", executedPrice |-> {}, error |-> ""]

\* mutants: the error message is not written; it is cleared by an update that
\* gives none; chosen_dex is not written; tx_hash and executed_price are not
updateOrderStatus_NoError(table, orderId, status, data, ok) ==
  IF ok /\ table[orderId] # NoRow
  THEN [table EXCEPT ![orderId] =
          [@ EXCEPT !.status = status,
                    !.chosen_dex = IF data.chosenDex # "" THEN data.chosenDex ELSE @,
                    !.tx_hash = IF data.txHash # "" THEN data.txHash ELSE @,
                    !.executed_price = IF data.executedPrice # {} THEN data.executedPrice ELSE @]]
  ELSE table
updateOrderStatus_ClearsError(table, orderId, status, data, ok) ==
  IF ok /\ table[orderId] # NoRow
  THEN [table EXCEPT ![orderId] =
          [@ EXCEPT !.status = status,
                    !.chosen_dex = IF data.chosenDex # "" THEN data.chosenDex ELSE @,
                    !.tx_hash = IF data.txHash # "" THEN data.txHash ELSE @,
                    !.executed_price = IF data.executedPrice # {} THEN data.executedPrice ELSE @,
                    !.error_message = data.error]]
  ELSE table
updateOrderStatus_NoVenue(table, orderId, status, data, ok) ==
  IF ok /\ table[orderId] # NoRow
  THEN [table EXCEPT ![orderId] =
          [@ EXCEPT !.status = status,
                    !.tx_hash = IF data.txHash # "" THEN data.txHash ELSE @,
                    !.executed_price = IF data.executedPrice # {} THEN data.executedPrice ELSE @,
                    !.error_message = IF data.error # "" THEN data.error ELSE @]]
  ELSE table
updateOrderStatus_NoSettlement(table, orderId, status, data, ok) ==
  IF ok /\ table[orderId] # NoRow
  THEN [table EXCEPT ![orderId] =
          [@ EXCEPT !.status = status,
                    !.chosen_dex = IF data.chosenDex # "" THEN data.chosenDex ELSE @,
                    !.error_message = IF data.error # "" THEN data.error ELSE @]]
  ELSE table

\* updateOrderStatus: UPDATE orders SET status, [chosen_dex], [tx_hash],
\* [executed_price], [error_message] WHERE order_id = $1
updateOrderStatus(table, orderId, status, data, ok) ==
  IF ok /\ table[orderId] # NoRow
  THEN [table EXCEPT ![orderId] =
          [@ EXCEPT !.status = status,
                    !.chosen_dex = IF data.chosenDex # "" THEN data.chosenDex ELSE @,
                    !.tx_hash = IF data.txHash # "" THEN data.txHash ELSE @,
                    !.executed_price = IF data.executedPrice # {} THEN data.executedPrice ELSE @,
                    !.error_message = IF data.error # "" THEN data.error ELSE @]]
  ELSE table

\* mutant: a failed write throws into the processor, which goes to its catch block
AfterWrite_Throws(ok, next) == IF ok THEN next ELSE "updFailed"

\* saveOrder and updateOrderStatus catch a failed query and log it: the caller's
\* await resolves and the processor goes on to its next step either way
AfterWrite(ok, next) == next

(* ------------------------------- logger --------------------------------- *)
\* mutant: the entry is put in front
logRouting_Unshift(lg, orderId, event, data) ==
  <<[orderId |-> orderId, event |-> event, data |-> data]>> \o lg

\* logRouting: logs.push(entry)
logRouting(lg, orderId, event, data) ==
  Append(lg, [orderId |-> orderId, event |-> event, data |-> data])

\* the argument of getLogs() called without an order id
NoOrderId == 0

\* getLogs(orderId?): logs.filter(l => l.orderId === orderId) if an id is
\* given, the whole array otherwise
getLogs(orderId) ==
  IF orderId # NoOrderId
  THEN SelectSeq(logs, LAMBDA l : l.orderId = orderId)
  ELSE logs

(* ------------------------------ event bus ------------------------------- *)
NoMeta == [none |-> TRUE]

\* mutant: the metadata is dropped
Event_NoMeta(status, orderId, metadata) ==
  [status |-> status, orderId |-> orderId, metadata |-> NoMeta]

\* the payload of orderEvents.emit: { status, orderId, metadata? }
Event(status, orderId, metadata) ==
  [status |-> status, orderId |-> orderId, metadata |-> metadata]

\* handler = (ev) => { if (socket.readyState === socket.OPEN)
\*                       socket.send(JSON.stringify({ ...ev, orderId })) }
handler(sk, h, ev) ==
  IF sk[h.sock].readyState = "OPEN"
  THEN [sk EXCEPT ![h.sock].inbox = Append(@, [ev EXCEPT !.orderId = h.orderId])]
  ELSE sk

\* orderEvents.emit(name, ev): calls the handlers registered under name, in order
RECURSIVE emit(_, _, _)
emit(sk, hs, ev) ==
  IF hs = <<>> THEN sk ELSE emit(handler(sk, Head(hs), ev), Tail(hs), ev)

\* mutant: every handler registered under the name is removed
off_All(hs, h) == <<>>

\* orderEvents.off(name, h): removes the most recently added instance of h
RECURSIVE off(_, _)
off(hs, h) ==
  IF hs = <<>> THEN hs
  ELSE IF hs[Len(hs)] = h THEN SubSeq(hs, 1, Len(hs) - 1)
  ELSE Append(off(SubSeq(hs, 1, Len(hs) - 1), h), hs[Len(hs)])

(* ------------------------------- routing -------------------------------- *)
\* quotes of MockDexRouter: price = basePrice * (0.98 + random * 0.04) for
\* raydium and basePrice * (0.97 + random * 0.05) for meteora
RaydiumPrices == {100 * PriceScale}
MeteoraPrices == {99 * PriceScale, 100 * PriceScale, 101 * PriceScale}
ExecPrices == {99 * PriceScale}
\* one price per venue, for the runs in which the prices do not matter
FlatRaydium == {100 * PriceScale}
FlatMeteora == {101 * PriceScale}
RaydiumQuoteOf(p) == [dex |-> "raydium", price |-> p, fee |-> 3]
MeteoraQuoteOf(p) == [dex |-> "meteora", price |-> p, fee |-> 2]

\* mutants: the lower price wins; a tie goes to meteora
Choose_Lower(r, m) == IF r.price <= m.price THEN r ELSE m
Choose_Strict(r, m) == IF r.price > m.price THEN r ELSE m

\* const chosen = rQ.price >= mQ.price ? rQ : mQ
Choose(r, m) == IF r.price >= m.price THEN r ELSE m

\* price.toFixed(4): the price (in units of 1/100000) rounded to 4 decimals,
\* in units of 1/10000
ToFixed4(p) == (p + 5) \div 10

SwapError == "Simulated network execution failure"

(* --------------------------- queue and limiter --------------------------- *)
\* mutants: one job too many; a limiter that admits nothing
ConcurrencyGate_OneMore(n) == n <= Concurrency
RateGate_OneMore(c) == c <= LimiterMax
RateGate_Zero(c) == c < 0

\* worker option concurrency: a job is fetched only while fewer than
\* `concurrency` jobs are being processed
ConcurrencyGate(n) == n < Concurrency

\* worker option limiter: the limiter key counts the starts; it is created by
\* the first start it counts and expires `duration` ms later
RateGate(c) == c < LimiterMax
\* mutant: every start renews the key, so the window slides with the last start
LimiterTtlAfterStart_Sliding(c, ttl) == LimiterDuration

LimiterTtlAfterStart(c, ttl) == IF c = 0 THEN LimiterDuration ELSE ttl

\* mutant: the same delay before every retry
Backoff_Fixed(made) == BackoffDelay

\* backoff { type: 'exponential', delay }: 2^(attemptsMade - 1) * delay
Backoff(made) == (2 ^ (made - 1)) * BackoffDelay

Active == {j \in OrderIds : jobState[j] = "active"}

(* -------------------------------- Init ----------------------------------- *)
Init ==
  /\ nextId = 1
  /\ lastReply = [code |-> 0]
  /\ issued = <<>>
  /\ inflight = {}
  /\ jobData = [j \in OrderIds |-> NoJob]
  /\ jobState = [j \in OrderIds |-> "none"]
  /\ wait = <<>>
  /\ delayed = [j \in OrderIds |-> 0]
  /\ waited = [j \in OrderIds |-> 0]
  /\ attemptsMade = [j \in OrderIds |-> 0]
  /\ limCount = 0
  /\ limTtl = 0
  /\ pc = [j \in OrderIds |-> "idle"]
  /\ rQ = [j \in OrderIds |-> NoQuote]
  /\ mQ = [j \in OrderIds |-> NoQuote]
  /\ chosen = [j \in OrderIds |-> NoQuote]
  /\ res = [j \in OrderIds |-> NoResult]
  /\ lateWrites = [j \in OrderIds |-> 0]
  /\ db = [j \in OrderIds |-> NoRow]
  /\ dbUp = TRUE
  /\ logs = <<>>
  /\ listeners = [j \in OrderIds |-> <<>>]
  /\ sock = [s \in Socks |-> [readyState |-> "NONE", subscribedId |-> 0,
                               subs |-> <<>>, inbox |-> <<>>, early |-> {}]]
  /\ published = [j \in OrderIds |-> <<>>]
  /\ gWait = 0
  /\ gActive = 0
  /\ gStarted = 0
  /\ gDelayed = <<>>
  /\ probe = [state |-> "idle", elapsed |-> 0, count |-> 0]

workerVars == <<pc, rQ, mQ, chosen, res>>
queueVars == <<jobData, jobState, wait, delayed, waited, attemptsMade, limCount, limTtl>>
busVars == <<listeners, sock, published>>
httpVars == <<nextId, lastReply, issued, inflight>>

(* ------------------------ POST /api/orders/execute ----------------------- *)
\* mutant: tokenOut is not checked
Invalid_NoTokenOut(body) ==
  body = NoBody \/ Falsy(body.tokenIn) \/ Falsy(body.amount)

\* if (!body || !body.tokenIn || !body.tokenOut || !body.amount) -> 400
Invalid(body) ==
  body = NoBody \/ Falsy(body.tokenIn) \/ Falsy(body.tokenOut) \/ Falsy(body.amount)

\* the Order built from a valid body
OrderOf(orderId, body) ==
  [orderId |-> orderId, tokenIn |-> body.tokenIn, tokenOut |-> body.tokenOut,
   amount |-> Number(body.amount),
   type |-> IF Falsy(body.type) THEN Str("market") ELSE body.type]

\* genId(): the n-th id handed out; ids are opaque and never repeat
genId(n) == n

\* mutant: every job is added under the same job id
JobIdOf_Fixed(order) == 1

\* ordersQueue.add('exec', order, { jobId: orderId, ... })
JobIdOf(order) == order.orderId

\* ordersQueue.add: bullmq ignores an add whose job id already exists
AddJob(order) ==
  LET jid == JobIdOf(order) IN
    IF jobState[jid] = "none"
    THEN /\ jobData' = [jobData EXCEPT ![jid] = order]
         /\ jobState' = [jobState EXCEPT ![jid] = "wait"]
         /\ wait' = Append(wait, jid)
    ELSE UNCHANGED <<jobData, jobState, wait>>

\* mutant: the add resolves only once the worker can take the job
AddResolves_WhenAdmitted(running, count) == ConcurrencyGate(running) /\ RateGate(count)

\* await ordersQueue.add(...) resolves when the job is stored in the queue,
\* whatever the worker is doing
AddResolves(running, count) == TRUE

Reply400 == [code |-> 400, error |-> "tokenIn, tokenOut and amount required"]
Reply202(orderId) == [code |-> 202, orderId |-> orderId,
                      ws |-> "/api/orders/execute (websocket)"]

\* one request handled without another interleaving; cap: the number of orders
\* this run accepts
Submit(body, cap) ==
  /\ IF Invalid(body)
     THEN /\ lastReply' = Reply400
          /\ UNCHANGED <<gateVars, dbUp, nextId, issued, inflight, queueVars, workerVars,
                         lateWrites, db, logs, busVars>>
     ELSE /\ nextId <= cap
          /\ AddResolves(Cardinality(Active) + gActive, limCount)
          /\ nextId' = nextId + 1
          /\ AddJob(OrderOf(genId(nextId), body))
          /\ lastReply' = Reply202(genId(nextId))
          /\ issued' = Append(issued, genId(nextId))
          /\ UNCHANGED <<gateVars, dbUp, inflight, delayed, waited, attemptsMade, limCount, limTtl,
                         workerVars, lateWrites, db, logs, busVars>>

\* the handler up to `await ordersQueue.add(...)`: validation, genId, the order
SubmitBegin(body, cap) ==
  /\ IF Invalid(body)
     THEN /\ lastReply' = Reply400
          /\ UNCHANGED <<nextId, inflight>>
     ELSE /\ nextId <= cap
          /\ nextId' = nextId + 1
          /\ inflight' = inflight \cup {OrderOf(genId(nextId), body)}
          /\ UNCHANGED lastReply
  /\ UNCHANGED <<gateVars, dbUp, issued, queueVars, workerVars, lateWrites, db, logs, busVars>>

\* ordersQueue.add resolves; reply 202 with the order id
SubmitAdd(order) ==
  /\ order \in inflight
  /\ AddResolves(Cardinality(Active) + gActive, limCount)
  /\ inflight' = inflight \ {order}
  /\ AddJob(order)
  /\ lastReply' = Reply202(order.orderId)
  /\ issued' = Append(issued, order.orderId)
  /\ UNCHANGED <<gateVars, dbUp, nextId, delayed, waited, attemptsMade, limCount, limTtl,
                 workerVars, lateWrites, db, logs, busVars>>

\* mutant: the handlers of every event name are called
RECURSIVE AllListeners(_)
AllListeners(n) == IF n = 0 THEN <<>> ELSE AllListeners(n - 1) \o listeners[n]
ListenersFor_All(name) == AllListeners(MaxOrders)

\* EventEmitter: the handlers registered under the event name, which is the
\* order id
ListenersFor(name) == listeners[name]

(* -------------------------------- worker --------------------------------- *)
Publish(orderId, ev) ==
  /\ published' = [published EXCEPT ![orderId] = Append(@, ev)]
  /\ sock' = emit(sock, ListenersFor(orderId), ev)
  /\ UNCHANGED listeners

\* mutant: a retry resumes at the quotes instead of running from the top
FirstStep_Resume(made) == IF made > 0 THEN "quotes" ELSE "saveOrder"

\* the processor is called anew for every attempt and runs from its first
\* statement, whatever the attempts made before
FirstStep(made) == "saveOrder"

\* bullmq moves the head of the wait list to active when both gates pass and
\* calls the processor, which runs up to `await saveOrder(order)`
Start(j) ==
  /\ wait # <<>> /\ Head(wait) = j
  /\ ConcurrencyGate(Cardinality(Active) + gActive)
  /\ RateGate(limCount)
  /\ wait' = Tail(wait)
  /\ jobState' = [jobState EXCEPT ![j] = "active"]
  /\ limTtl' = LimiterTtlAfterStart(limCount, limTtl)
  /\ limCount' = limCount + 1
  /\ pc' = [pc EXCEPT ![j] = FirstStep(attemptsMade[j])]
  /\ rQ' = [rQ EXCEPT ![j] = NoQuote]
  /\ mQ' = [mQ EXCEPT ![j] = NoQuote]
  /\ chosen' = [chosen EXCEPT ![j] = NoQuote]
  /\ res' = [res EXCEPT ![j] = NoResult]
  /\ UNCHANGED <<gateVars, dbUp, httpVars, jobData, delayed, waited, attemptsMade, lateWrites, db, logs, busVars>>

\* saveOrder returns; await updateOrderStatus(orderId, 'pending')
SaveOrderDone(j) ==
  /\ pc[j] = "saveOrder"
  /\ db' = saveOrder(db, jobData[j], dbUp)
  /\ pc' = [pc EXCEPT ![j] = AfterWrite(dbUp, "updPending")]
  /\ UNCHANGED <<gateVars, dbUp, httpVars, queueVars, rQ, mQ, chosen, res, lateWrites, logs, busVars>>

\* the 'pending' update returns; emit routing; await updateOrderStatus 'routing'
UpdPendingDone(j) ==
  /\ pc[j] = "updPending"
  /\ db' = updateOrderStatus(db, j, "pending", NoData, dbUp)
  /\ Publish(j, Event("routing", j, NoMeta))
  /\ pc' = [pc EXCEPT ![j] = AfterWrite(dbUp, "updRouting")]
  /\ UNCHANGED <<gateVars, dbUp, httpVars, queueVars, rQ, mQ, chosen, res, lateWrites, logs>>

\* the 'routing' update returns; log; both quote calls are issued (Promise.all)
UpdRoutingDone(j) ==
  /\ pc[j] = "updRouting"
  /\ db' = updateOrderStatus(db, j, "routing", NoData, dbUp)
  /\ logs' = logRouting(logs, j, "Starting DEX routing",
                        [tokenIn |-> jobData[j].tokenIn, tokenOut |-> jobData[j].tokenOut,
                         amount |-> jobData[j].amount])
  /\ pc' = [pc EXCEPT ![j] = AfterWrite(dbUp, "quotes")]
  /\ UNCHANGED <<gateVars, dbUp, httpVars, queueVars, rQ, mQ, chosen, res, lateWrites, busVars>>

\* dex.getRaydiumQuote resolves
RaydiumQuote(j, p) ==
  /\ pc[j] = "quotes" /\ rQ[j] = NoQuote
  /\ rQ' = [rQ EXCEPT ![j] = RaydiumQuoteOf(p)]
  /\ UNCHANGED <<gateVars, dbUp, httpVars, queueVars, pc, mQ, chosen, res, lateWrites, db, logs, busVars>>

\* dex.getMeteoraQuote resolves
MeteoraQuote(j, p) ==
  /\ pc[j] = "quotes" /\ mQ[j] = NoQuote
  /\ mQ' = [mQ EXCEPT ![j] = MeteoraQuoteOf(p)]
  /\ UNCHANGED <<gateVars, dbUp, httpVars, queueVars, pc, rQ, chosen, res, lateWrites, db, logs, busVars>>

\* mutant: the entry names the first venue
ComparisonData_First(r, m, c) ==
  [raydium |-> [price |-> r.price, fee |-> r.fee],
   meteora |-> [price |-> m.price, fee |-> m.fee],
   chosen |-> r.dex,
   reason |-> <<"Better price: ", ToFixed4(c.price)>>]

\* the log entry 'DEX comparison completed'
ComparisonData(r, m, c) ==
  [raydium |-> [price |-> r.price, fee |-> r.fee],
   meteora |-> [price |-> m.price, fee |-> m.fee],
   chosen |-> c.dex,
   reason |-> <<"Better price: ", ToFixed4(c.price)>>]

\* mutant: the first quote to arrive is enough
PromiseAll_Race(r, m) == r # NoQuote \/ m # NoQuote

\* await Promise.all([getRaydiumQuote, getMeteoraQuote]) resolves when both have
PromiseAll(r, m) == r # NoQuote /\ m # NoQuote

\* Promise.all resolves: choose, log, emit building, await the 'building' update
QuotesDone(j) ==
  /\ pc[j] = "quotes" /\ PromiseAll(rQ[j], mQ[j])
  /\ LET c == Choose(rQ[j], mQ[j]) IN
       /\ chosen' = [chosen EXCEPT ![j] = c]
       /\ logs' = logRouting(logs, j, "DEX comparison completed",
                             ComparisonData(rQ[j], mQ[j], c))
       /\ Publish(j, Event("building", j, [dex |-> c.dex, price |-> c.price]))
  /\ pc' = [pc EXCEPT ![j] = "updBuilding"]
  /\ UNCHANGED <<gateVars, dbUp, httpVars, queueVars, rQ, mQ, res, lateWrites, db>>

\* the 'building' update returns; log; emit submitted; await the 'submitted' update
UpdBuildingDone(j) ==
  /\ pc[j] = "updBuilding"
  /\ db' = updateOrderStatus(db, j, "building",
                             [NoData EXCEPT !.chosenDex = chosen[j].dex], dbUp)
  /\ logs' = logRouting(logs, j, "Building transaction", [dex |-> chosen[j].dex])
  /\ Publish(j, Event("submitted", j, [dex |-> chosen[j].dex]))
  /\ pc' = [pc EXCEPT ![j] = AfterWrite(dbUp, "updSubmitted")]
  /\ UNCHANGED <<gateVars, dbUp, httpVars, queueVars, rQ, mQ, chosen, res, lateWrites>>

\* the 'submitted' update returns; log; await dex.executeSwap(chosen.dex, order)
UpdSubmittedDone(j) ==
  /\ pc[j] = "updSubmitted"
  /\ db' = updateOrderStatus(db, j, "submitted", NoData, dbUp)
  /\ logs' = logRouting(logs, j, "Transaction submitted to network", [dex |-> chosen[j].dex])
  /\ pc' = [pc EXCEPT ![j] = AfterWrite(dbUp, "swap")]
  /\ UNCHANGED <<gateVars, dbUp, httpVars, queueVars, rQ, mQ, chosen, res, lateWrites, busVars>>

\* executeSwap resolves: emit confirmed; await the 'confirmed' update
SwapOk(j, price) ==
  /\ pc[j] = "swap"
  /\ res' = [res EXCEPT ![j] = [txHash |-> "MOCK_TX", executedPrice |-> price]]
  /\ Publish(j, Event("confirmed", j,
                [txHash |-> "MOCK_TX", executedPrice |-> price, dex |-> chosen[j].dex]))
  /\ pc' = [pc EXCEPT ![j] = "updConfirmed"]
  /\ UNCHANGED <<gateVars, dbUp, httpVars, queueVars, rQ, mQ, chosen, lateWrites, db, logs>>

\* executeSwap throws; catch: emit failed; await the 'failed' update
SwapFail(j) ==
  /\ pc[j] = "swap"
  /\ res' = [res EXCEPT ![j] = [error |-> SwapError]]
  /\ Publish(j, Event("failed", j, [error |-> SwapError]))
  /\ pc' = [pc EXCEPT ![j] = "updFailed"]
  /\ UNCHANGED <<gateVars, dbUp, httpVars, queueVars, rQ, mQ, chosen, lateWrites, db, logs>>

\* mutant: a job whose processor returned is run again while attempts are left
MoveToCompletedState_Retry(made) == IF made + 1 < Attempts THEN "delayed" ELSE "completed"

\* bullmq, after the processor returned: the job is completed, whatever the
\* attempts made
MoveToCompletedState(made) == "completed"

\* the 'confirmed' update returns; log; return res: bullmq completes the job
UpdConfirmedDone(j) ==
  /\ pc[j] = "updConfirmed"
  /\ db' = updateOrderStatus(db, j, "confirmed",
                             [NoData EXCEPT !.txHash = res[j].txHash,
                                            !.executedPrice = {res[j].executedPrice}], dbUp)
  /\ logs' = logRouting(logs, j, "Transaction confirmed",
                        [txHash |-> res[j].txHash, executedPrice |-> res[j].executedPrice])
  /\ jobState' = [jobState EXCEPT ![j] = MoveToCompletedState(attemptsMade[j])]
  /\ pc' = [pc EXCEPT ![j] = "idle"]
  /\ UNCHANGED <<gateVars, dbUp, httpVars, jobData, wait, delayed, waited, attemptsMade, limCount, limTtl,
                 rQ, mQ, chosen, res, lateWrites, busVars>>

\* mutants: one attempt too many; a job that is to be retried is left active
MoveToFailedState_OneMore(made) == IF made <= Attempts THEN "delayed" ELSE "failed"
MoveToFailedState_Stuck(made) == IF made < Attempts THEN "active" ELSE "failed"

\* bullmq, after the processor threw: the attempt is counted; while attempts
\* are left the job is delayed by the backoff, otherwise it is failed
MoveToFailedState(made) == IF made < Attempts THEN "delayed" ELSE "failed"

\* the 'failed' update returns; log; throw err. bullmq moves the job to
\* delayed or failed and emits 'failed' on the worker, whose listener emits
\* failed again, calls updateOrderStatus without awaiting it, and logs
UpdFailedDone(j) ==
  /\ pc[j] = "updFailed"
  /\ db' = updateOrderStatus(db, j, "failed", [NoData EXCEPT !.error = res[j].error], dbUp)
  /\ attemptsMade' = [attemptsMade EXCEPT ![j] = @ + 1]
  /\ jobState' = [jobState EXCEPT ![j] = MoveToFailedState(attemptsMade'[j])]
  /\ delayed' = [delayed EXCEPT ![j] =
                   IF jobState'[j] = "delayed" THEN Backoff(attemptsMade'[j]) ELSE 0]
  /\ waited' = [waited EXCEPT ![j] = 0]
  /\ Publish(j, Event("failed", j, [error |-> res[j].error]))
  /\ lateWrites' = [lateWrites EXCEPT ![j] = @ + 1]
  /\ logs' = logRouting(
                logRouting(logs, j, "Transaction failed", [error |-> res[j].error]),
                j, "Job failed after retries", [error |-> res[j].error])
  /\ pc' = [pc EXCEPT ![j] = "idle"]
  /\ UNCHANGED <<gateVars, dbUp, httpVars, jobData, wait, limCount, limTtl, rQ, mQ, chosen, res>>

\* the un-awaited updateOrderStatus(id, 'failed', { error }) of the listener lands
LateWriteDone(j) ==
  /\ lateWrites[j] > 0
  /\ lateWrites' = [lateWrites EXCEPT ![j] = @ - 1]
  /\ db' = updateOrderStatus(db, j, "failed", [NoData EXCEPT !.error = SwapError], dbUp)
  /\ UNCHANGED <<gateVars, dbUp, httpVars, queueVars, workerVars, logs, busVars>>

(* --------------------------------- time ----------------------------------- *)
Max0(n) == IF n < 0 THEN 0 ELSE n

\* the timers that are running: backoff delays and the limiter key's expiry;
\* the runs that follow single orders advance the clock to the expiry of one
Timers == {delayed[j] : j \in {k \in OrderIds : jobState[k] = "delayed" /\ delayed[k] > 0}}
          \cup {gDelayed[i] : i \in {k \in 1..Len(gDelayed) : gDelayed[k] > 0}}
          \cup (IF limTtl > 0 THEN {limTtl} ELSE {})

\* the observer after d more ms: its window closes LimiterDuration ms after it opened
ProbeAfter(p, d) ==
  IF p.state = "open"
  THEN IF p.elapsed + d >= LimiterDuration
       THEN [state |-> "closed", elapsed |-> 0, count |-> 0]
       ELSE [p EXCEPT !.elapsed = @ + d]
  ELSE p

\* d ms pass: running timers advance, an expired limiter key is gone
Tick(d) ==
  /\ delayed' = [j \in OrderIds |-> Max0(delayed[j] - d)]
  /\ waited' = [j \in OrderIds |->
                  IF jobState[j] = "delayed" THEN waited[j] + d ELSE waited[j]]
  /\ gDelayed' = [i \in 1..Len(gDelayed) |-> Max0(gDelayed[i] - d)]
  /\ limTtl' = Max0(limTtl - d)
  /\ limCount' = IF limTtl' = 0 THEN 0 ELSE limCount
  /\ probe' = ProbeAfter(probe, d)
  /\ UNCHANGED <<dbUp, httpVars, jobData, jobState, wait, attemptsMade, workerVars,
                 lateWrites, db, logs, busVars, gWait, gActive, gStarted>>

\* mutant: a job that is being processed is put back on the wait list as well
Promote_Active(j) ==
  /\ jobState[j] \in {"delayed", "active"} /\ delayed[j] = 0
  /\ jobState' = [jobState EXCEPT ![j] = "wait"]
  /\ wait' = Append(wait, j)
  /\ UNCHANGED <<gateVars, dbUp, httpVars, jobData, delayed, waited, attemptsMade, limCount, limTtl,
                 workerVars, lateWrites, db, logs, busVars>>

\* QueueScheduler: a delayed job whose delay has passed goes back to the wait list
Promote(j) ==
  /\ jobState[j] = "delayed" /\ delayed[j] = 0
  /\ jobState' = [jobState EXCEPT ![j] = "wait"]
  /\ wait' = Append(wait, j)
  /\ UNCHANGED <<gateVars, dbUp, httpVars, jobData, delayed, waited, attemptsMade, limCount, limTtl,
                 workerVars, lateWrites, db, logs, busVars>>

(* ------------------------- the queue, jobs counted ------------------------- *)
mainVars == <<dbUp, httpVars, jobData, jobState, wait, delayed, waited, attemptsMade, workerVars,
              lateWrites, db, logs, busVars>>

\* ordersQueue.add: one more job waits
GSubmit ==
  /\ gWait < MaxQueue
  /\ gWait' = gWait + 1
  /\ UNCHANGED <<mainVars, limCount, limTtl, gActive, gStarted, gDelayed, probe>>

\* the worker fetches a waiting job when both gates pass
GStart ==
  /\ gWait > 0
  /\ ConcurrencyGate(gActive + Cardinality(Active))
  /\ RateGate(limCount)
  /\ gWait' = gWait - 1
  /\ gActive' = gActive + 1
  /\ gStarted' = 1 - gStarted
  /\ limTtl' = LimiterTtlAfterStart(limCount, limTtl)
  /\ limCount' = limCount + 1
  /\ probe' = IF probe.state = "open" THEN [probe EXCEPT !.count = @ + 1] ELSE probe
  /\ UNCHANGED <<mainVars, gDelayed>>

\* the processor returns: the job is completed
GComplete ==
  /\ gActive > 0
  /\ gActive' = gActive - 1
  /\ UNCHANGED <<mainVars, limCount, limTtl, gWait, gStarted, gDelayed, probe>>

\* the processor throws in the attempt that makes attemptsMade = made: the job
\* is delayed by the backoff or failed
GFail(made) ==
  /\ gActive > 0
  /\ gActive' = gActive - 1
  /\ IF MoveToFailedState(made) = "delayed"
     THEN /\ Len(gDelayed) < MaxRetrying
          /\ gDelayed' = Append(gDelayed, Backoff(made))
     ELSE UNCHANGED gDelayed
  /\ UNCHANGED <<mainVars, limCount, limTtl, gWait, gStarted, probe>>

\* QueueScheduler: a delayed job whose delay has passed goes back to the wait list
GPromote(i) ==
  /\ i \in 1..Len(gDelayed) /\ gDelayed[i] = 0
  /\ gDelayed' = [k \in 1..(Len(gDelayed) - 1) |->
                    IF k < i THEN gDelayed[k] ELSE gDelayed[k + 1]]
  /\ gWait' = gWait + 1
  /\ UNCHANGED <<mainVars, limCount, limTtl, gActive, gStarted, probe>>

\* the observer opens its window now
ProbeOpen ==
  /\ probe.state = "idle"
  /\ probe' = [probe EXCEPT !.state = "open"]
  /\ UNCHANGED <<mainVars, limCount, limTtl, gWait, gActive, gStarted, gDelayed>>

(* --------------------------------- store ---------------------------------- *)
\* the store stops answering queries
StoreDown ==
  /\ dbUp /\ dbUp' = FALSE
  /\ UNCHANGED <<gateVars, httpVars, queueVars, workerVars, lateWrites, db, logs, busVars>>

\* the store answers again
StoreUp ==
  /\ ~dbUp /\ dbUp' = TRUE
  /\ UNCHANGED <<gateVars, httpVars, queueVars, workerVars, lateWrites, db, logs, busVars>>

(* ---------------------- websocket /api/orders/execute --------------------- *)
Connect(s) ==
  /\ sock[s].readyState = "NONE"
  /\ sock' = [sock EXCEPT ![s].readyState = "OPEN"]
  /\ UNCHANGED <<gateVars, dbUp, httpVars, queueVars, workerVars, lateWrites, db, logs, listeners, published>>

\* the handler closure of the k-th subscribe message of socket s
HandlerOf(s, k, orderId) == [sock |-> s, n |-> k, orderId |-> orderId]

\* no attempt of job j has started yet
NotPickedUp(j) == jobState[j] \in {"none", "wait"} /\ attemptsMade[j] = 0

\* mutants: no snapshot is sent; the events published so far are replayed
SnapshotSent_None(inbox, orderId) == inbox
SnapshotSent_Replay(inbox, orderId) ==
  Append(inbox, Event("pending", orderId, NoMeta)) \o published[orderId]
\* mutant: the snapshot carries the status of the order's row
SnapshotSent_Stored(inbox, orderId) ==
  Append(inbox, Event(IF db[orderId] = NoRow THEN "pending" ELSE db[orderId].status,
                      orderId, NoMeta))

\* socket.send(JSON.stringify({ status: 'pending', orderId }))
SnapshotSent(inbox, orderId) == Append(inbox, Event("pending", orderId, NoMeta))

\* socket.on('message') with { orderId }: subscribedId = orderId; send the
\* pending snapshot; orderEvents.on(orderId, handler); socket.on('close', ...)
Subscribe(s, orderId) ==
  /\ sock[s].readyState = "OPEN"
  /\ Len(sock[s].subs) < MaxSubs
  /\ sock' = [sock EXCEPT ![s].subscribedId = orderId,
                          ![s].subs = Append(@, orderId),
                          ![s].inbox = SnapshotSent(@, orderId),
                          ![s].early = IF NotPickedUp(orderId) THEN @ \cup {orderId} ELSE @]
  /\ listeners' = [listeners EXCEPT ![orderId] =
                     Append(@, HandlerOf(s, Len(sock[s].subs) + 1, orderId))]
  /\ UNCHANGED <<gateVars, dbUp, httpVars, queueVars, workerVars, lateWrites, db, logs, published>>

\* the close listeners of socket s, run in registration order from the k-th on:
\* each does orderEvents.off(subscribedId, handler) with its own handler
RECURSIVE closeListeners(_, _, _)
closeListeners(ls, s, k) ==
  IF k > Len(sock[s].subs) THEN ls
  ELSE closeListeners(
         [ls EXCEPT ![sock[s].subscribedId] = off(@, HandlerOf(s, k, sock[s].subs[k]))],
         s, k + 1)

Close(s) ==
  /\ sock[s].readyState = "OPEN"
  /\ sock' = [sock EXCEPT ![s].readyState = "CLOSED"]
  /\ listeners' = closeListeners(listeners, s, 1)
  /\ UNCHANGED <<gateVars, dbUp, httpVars, queueVars, workerVars, lateWrites, db, logs, published>>

(* --------------------------------- Next ----------------------------------- *)
\* the body the repository's tests and scripts submit
SampleBody == [tokenIn |-> Str("USDC"), tokenOut |-> Str("SOL"), amount |-> Num(100),
               type |-> Undefined]

\* the steps of the processor of job j, the venues quoting prices of RP and MP
Process(j, RP, MP) ==
  \/ Start(j)
  \/ SaveOrderDone(j)
  \/ UpdPendingDone(j)
  \/ UpdRoutingDone(j)
  \/ \E p \in RP : RaydiumQuote(j, p)
  \/ \E p \in MP : MeteoraQuote(j, p)
  \/ QuotesDone(j)
  \/ UpdBuildingDone(j)
  \/ UpdSubmittedDone(j)
  \/ \E p \in ExecPrices : SwapOk(j, p)
  \/ SwapFail(j)
  \/ UpdConfirmedDone(j)
  \/ UpdFailedDone(j)
  \/ LateWriteDone(j)

\* worker, scheduler and clock
Engine(RP, MP) ==
  \/ \E j \in OrderIds : Process(j, RP, MP)
  \/ \E d \in Timers : Tick(d)
  \/ \E j \in OrderIds : Promote(j)

\* the connections of SS, each sending at most n subscribe messages
Websocket(SS, n) ==
  \/ \E s \in SS : Connect(s)
  \/ \E s \in SS, id \in OrderIds : Len(sock[s].subs) < n /\ Subscribe(s, id)
  \/ \E s \in SS : Close(s)

\* one order with a subscriber
Next ==
  \/ Submit(SampleBody, 1)
  \/ Engine(FlatRaydium, FlatMeteora)
  \/ Websocket({1}, 1)

Spec == Init /\ [][Next]_vars

\* one order, no subscriber
NextEngine ==
  \/ Submit(SampleBody, 1)
  \/ Engine(FlatRaydium, FlatMeteora)

SpecEngine == Init /\ [][NextEngine]_vars

\* the event loop runs every continuation that is ready, timers fire, the
\* scheduler promotes and the worker fetches
EngineFairness ==
  /\ \A j \in OrderIds : WF_vars(Process(j, FlatRaydium, FlatMeteora))
  /\ \A j \in OrderIds : WF_vars(Promote(j))
  /\ WF_vars(\E d \in Timers : Tick(d))

SpecEngineFair == SpecEngine /\ EngineFairness

\* one order, the venues quoting different prices
NextRouting ==
  \/ Submit(SampleBody, 1)
  \/ Engine(RaydiumPrices, MeteoraPrices)

SpecRouting == Init /\ [][NextRouting]_vars

\* the gateway: every request body
NextHttp ==
  \/ \E body \in Bodies : Submit(body, 1)
  \/ Engine(FlatRaydium, FlatMeteora)

SpecHttp == Init /\ [][NextHttp]_vars

\* one order, a store that may fail
NextDb ==
  \/ Submit(SampleBody, 1)
  \/ Engine(FlatRaydium, FlatMeteora)
  \/ StoreDown
  \/ StoreUp

SpecDb == Init /\ [][NextDb]_vars

\* the clock of the runs that count jobs advances in half limiter windows
GateSteps == {LimiterDuration \div 2}

\* the admission gates: jobs counted, not told apart
NextGate ==
  \/ GSubmit
  \/ GStart
  \/ GComplete
  \/ \E made \in 1..Attempts : GFail(made)
  \/ \E i \in 1..MaxRetrying : GPromote(i)
  \/ \E d \in GateSteps : Tick(d)

SpecGate == Init /\ [][NextGate]_vars

\* the worker fetches whenever it may, every running attempt ends, time passes
\* and the scheduler promotes
GateFairness ==
  /\ WF_vars(GStart)
  /\ WF_vars(GComplete \/ \E made \in 1..Attempts : GFail(made))
  /\ WF_vars(\E i \in 1..MaxRetrying : GPromote(i))
  /\ WF_vars(\E d \in GateSteps : Tick(d))

SpecGateFair == SpecGate /\ GateFairness

\* the rate gate: jobs enter the wait list, start and finish, and an observer
\* counts the starts of one 60 s window
NextRate ==
  \/ GSubmit
  \/ GStart
  \/ GComplete
  \/ \E d \in GateSteps : Tick(d)
  \/ ProbeOpen

SpecRate == Init /\ [][NextRate]_vars

\* the same, attempts also ending in their last failure
NextWindow ==
  \/ NextRate
  \/ GFail(Attempts)

SpecWindow == Init /\ [][NextWindow]_vars

\* the orders a valid request may carry
ValidBodies == {b \in Bodies : ~Invalid(b)}

\* several requests in flight at once; the worker fetches the jobs
NextIds ==
  \/ \E body \in Bodies : SubmitBegin(body, MaxOrders)
  \/ \E order \in inflight : SubmitAdd(order)
  \/ \E body \in ValidBodies : Submit(body, MaxOrders)
  \/ \E j \in OrderIds : Start(j)

SpecIds == Init /\ [][NextIds]_vars

\* one order in its first attempt, several connections subscribing and closing
NextSubs ==
  \/ Submit(SampleBody, 1)
  \/ \E j \in OrderIds : Process(j, FlatRaydium, FlatMeteora)
  \/ Websocket(Socks, MaxSubs)

SpecSubs == Init /\ [][NextSubs]_vars

\* several orders routed at the same time, their events interleaved, and
\* connections that subscribe to any of them
NextCross ==
  \/ Submit(SampleBody, MaxOrders)
  \/ \E j \in OrderIds : Start(j)
  \/ \E j \in OrderIds : SaveOrderDone(j)
  \/ \E j \in OrderIds : UpdPendingDone(j)
  \/ \E j \in OrderIds : UpdRoutingDone(j)
  \/ \E j \in OrderIds, p \in FlatRaydium : RaydiumQuote(j, p)
  \/ \E j \in OrderIds, p \in FlatMeteora : MeteoraQuote(j, p)
  \/ \E j \in OrderIds : QuotesDone(j)
  \/ \E j \in OrderIds : UpdBuildingDone(j)
  \/ Websocket(Socks, 1)

SpecCross == Init /\ [][NextCross]_vars

\* one order submitted while counted jobs keep the worker and the limiter busy
NextLoad ==
  \/ Submit(SampleBody, 1)
  \/ \E j \in OrderIds : Start(j)
  \/ GSubmit
  \/ GStart
  \/ GComplete
  \/ \E d \in GateSteps : Tick(d)

SpecLoad == Init /\ [][NextLoad]_vars

\* several orders, each in its first attempt, their steps interleaved
NextOrders ==
  \/ Submit(SampleBody, MaxOrders)
  \/ \E j \in OrderIds : Process(j, FlatRaydium, FlatMeteora)

SpecOrders == Init /\ [][NextOrders]_vars

(* ============================== properties =============================== *)
Statuses(q) == [i \in 1..Len(q) |-> q[i].status]
HasStatus(q, st) == \E i \in 1..Len(q) : q[i].status = st
CountStatus(q, st) == Cardinality({i \in 1..Len(q) : q[i].status = st})
\* the messages socket s was sent for order o
InboxOf(s, o) == SelectSeq(sock[s].inbox, LAMBDA m : m.orderId = o)

Lifecycle == <<"pending", "routing", "building", "submitted", "confirmed">>

\* C1 (as claimed): a subscriber that subscribed to an order before the worker
\* picked its job up and is delivered confirmed has observed exactly the
\* statuses pending, routing, building, submitted, confirmed.
C1_ExactSequence ==
  \A s \in Socks, o \in OrderIds :
    (o \in sock[s].early /\ HasStatus(InboxOf(s, o), "confirmed"))
      => Statuses(InboxOf(s, o)) = Lifecycle

\* C2 (as claimed): no order has both a failed and a confirmed event published
\* over its whole life; in particular no confirmed follows a failed.
C2_NeverBoth ==
  \A o \in OrderIds :
    ~(HasStatus(published[o], "failed") /\ HasStatus(published[o], "confirmed"))

\* the terminal outcome of job j: completed with a confirmed event published, or
\* failed with the retry budget exhausted and a failed event published
Terminal(j) ==
  \/ jobState[j] = "completed" /\ HasStatus(published[j], "confirmed")
  \/ /\ jobState[j] = "failed" /\ attemptsMade[j] = Attempts
     /\ HasStatus(published[j], "failed")

\* C3: under fair scheduling every accepted order eventually reaches its
\* terminal outcome: confirmed published and the job completed, or the retry
\* budget exhausted, failed published and the job failed.
C3_EventuallyTerminal ==
  \A j \in OrderIds : (jobState[j] # "none") ~> Terminal(j)

C3_Witness ==
  /\ jobState[1] = "failed" /\ attemptsMade[1] = Attempts
  /\ HasStatus(published[1], "failed") /\ ~HasStatus(published[1], "confirmed")

\* C4: an order is attempted at most 3 times; once 3 attempts have failed the
\* job is failed for good: it is not waiting, delayed or being processed.
C4_AtMostThreeAttempts ==
  \A j \in OrderIds :
    /\ attemptsMade[j] <= 3
    /\ CountStatus(published[j], "routing") <= 3
    /\ attemptsMade[j] = 3 =>
         /\ jobState[j] = "failed" /\ pc[j] = "idle"
         /\ \A i \in 1..Len(wait) : wait[i] # j

C4_Witness ==
  /\ attemptsMade[1] = 3 /\ jobState[1] = "failed"
  /\ CountStatus(published[1], "routing") = 3
  /\ CountStatus(published[1], "confirmed") = 0

MaxOf(a, b) == IF a >= b THEN a ELSE b

\* C7: whenever an attempt has chosen a quote, it is one of the two quotes of
\* that attempt and its price is the maximum of the two prices.
C7_ChoosesMaxPrice ==
  \A j \in OrderIds :
    chosen[j] # NoQuote =>
      /\ chosen[j] \in {rQ[j], mQ[j]}
      /\ chosen[j].price = MaxOf(rQ[j].price, mQ[j].price)

C7_Witness ==
  /\ chosen[1] # NoQuote /\ rQ[1].price < mQ[1].price /\ chosen[1].dex = "meteora"
  /\ \E i \in 1..Len(published[1]) :
       /\ published[1][i].status = "building"
       /\ published[1][i].metadata.dex = "raydium"

\* C8: when the two quotes have equal prices the chosen venue is raydium,
\* whichever quote arrived first.
C8_TieGoesToRaydium ==
  \A j \in OrderIds :
    (chosen[j] # NoQuote /\ rQ[j].price = mQ[j].price) => chosen[j].dex = "raydium"

C8_Witness ==
  chosen[1] # NoQuote /\ rQ[1].price = mQ[1].price /\ chosen[1].dex = "raydium"

\* the 'DEX comparison completed' entries and the building events of order o
Comparisons(o) == SelectSeq(getLogs(o), LAMBDA l : l.event = "DEX comparison completed")
Buildings(o) == SelectSeq(published[o], LAMBDA e : e.status = "building")

\* C9: every routing decision of an order has its own decision-log entry, in
\* order: the entry holds price and fee of both quotes, the chosen venue and a
\* reason; the venue it names has the maximum of the two logged prices and is
\* the venue of that attempt's building event; the latest entry holds the
\* quotes the attempt received.
C9_DecisionLogged ==
  \A o \in OrderIds :
    /\ Len(Comparisons(o)) = Len(Buildings(o))
    /\ \A k \in 1..Len(Comparisons(o)) :
         LET d == Comparisons(o)[k].data IN
           /\ DOMAIN d = {"raydium", "meteora", "chosen", "reason"}
           /\ DOMAIN d.raydium = {"price", "fee"}
           /\ DOMAIN d.meteora = {"price", "fee"}
           /\ d.chosen \in {"raydium", "meteora"}
           /\ d[d.chosen].price = MaxOf(d.raydium.price, d.meteora.price)
           /\ d.reason = <<"Better price: ", ToFixed4(d[d.chosen].price)>>
           /\ Buildings(o)[k].metadata.dex = d.chosen
           /\ Buildings(o)[k].metadata.price = d[d.chosen].price
    /\ chosen[o] # NoQuote =>
         LET d == Comparisons(o)[Len(Comparisons(o))].data IN
           /\ d.raydium = [price |-> rQ[o].price, fee |-> rQ[o].fee]
           /\ d.meteora = [price |-> mQ[o].price, fee |-> mQ[o].fee]

C9_Witness ==
  /\ Len(Comparisons(1)) = 2
  /\ Comparisons(1)[1].data.chosen = "raydium"
  /\ Comparisons(1)[2].data.chosen = "meteora"
  /\ Len(Buildings(1)) = 2

\* a request body in which tokenIn, tokenOut or amount is missing
MissingField(b) ==
  b # NoBody /\ (b.tokenIn = Undefined \/ b.tokenOut = Undefined \/ b.amount = Undefined)

\* C10: a submission in which tokenIn, tokenOut or amount is missing is answered
\* 400 and changes nothing else: no id is issued, no job is added, no event is
\* published, no log entry is written.
C10_RejectionChangesNothing ==
  [][\A b \in Bodies :
       (MissingField(b) /\ Submit(b, 1)) =>
         /\ lastReply'.code = 400
         /\ UNCHANGED <<nextId, issued, inflight, queueVars, workerVars, lateWrites,
                        db, dbUp, logs, busVars>>]_vars

C10_Witness ==
  /\ lastReply.code = 400
  /\ jobState[1] = "active" /\ Len(published[1]) > 0 /\ Len(logs) > 0

\* C5: the number of attempts being processed never exceeds 10, whatever
\* waits in the queue.
C5_ConcurrencyCap ==
  /\ gActive <= 10
  /\ Cardinality(Active) <= 10

C5_Witness == gActive = 10 /\ gWait > 0

C11_NoNonPositiveAmount ==
  \A j \in OrderIds :
    jobState[j] # "none" => (jobData[j].amount.t = "number" /\ jobData[j].amount.v > 0)

\* the jobs that exist
Jobs == {j \in OrderIds : jobState[j] # "none"}

\* C12: the order ids returned so far are pairwise distinct and differ from
\* the ids of the requests still in flight; every returned id is the job id of
\* exactly one job, which carries the order of that id, and there are as many
\* jobs as returned ids.
C12_UniqueIds ==
  /\ \A i, k \in 1..Len(issued) : i # k => issued[i] # issued[k]
  /\ \A o1, o2 \in inflight : o1.orderId = o2.orderId => o1 = o2
  /\ \A o \in inflight : \A i \in 1..Len(issued) : issued[i] # o.orderId
  /\ \A i \in 1..Len(issued) :
       /\ issued[i] \in Jobs
       /\ jobData[issued[i]].orderId = issued[i]
  /\ Cardinality(Jobs) = Len(issued)

C12_Witness ==
  /\ Len(issued) = MaxOrders
  /\ issued[1] = 2 /\ issued[2] = 1
  /\ jobState[1] = "active" /\ jobState[2] = "active"

\* C13: the lifecycle of an order runs only while its job is active, an active
\* job is neither waiting nor delayed nor twice in the wait list, and an
\* attempt starts only when no attempt of that order is running: an attempt
\* and its retry never overlap.
C13_OneTaskPerOrder ==
  /\ [](\A j \in OrderIds :
         /\ pc[j] # "idle" => jobState[j] = "active"
         /\ Cardinality({i \in 1..Len(wait) : wait[i] = j})
              = IF jobState[j] = "wait" THEN 1 ELSE 0)
  /\ [][\A j \in OrderIds : Start(j) => pc[j] = "idle"]_vars

C13_Witness ==
  attemptsMade[1] = 1 /\ jobState[1] = "active" /\ pc[1] = "swap"

\* the persisted status of order o is terminal
PersistedTerminal(o) == db[o] # NoRow /\ db[o].status \in {"confirmed", "failed"}

\* C14 (as claimed): once the persisted status of an order is confirmed or
\* failed, no step changes its status, chosen_dex, tx_hash, executed_price or
\* error_message.
C14_TerminalRowFrozen ==
  [][\A o \in OrderIds : PersistedTerminal(o) => db'[o] = db[o]]_vars

\* the place of a status in pending, routing, building, submitted, confirmed | failed
Rank(st) ==
  CASE st = "pending" -> 0
    [] st = "routing" -> 1
    [] st = "building" -> 2
    [] st = "submitted" -> 3
    [] st = "confirmed" -> 4
    [] st = "failed" -> 4

\* C15 (as claimed): the statuses published for an order over all its attempts
\* only move forward: none is published twice and none follows a later one
\* (any status published after confirmed or failed breaks this as well).
C15_ForwardOnly ==
  \A o \in OrderIds :
    \A i, k \in 1..Len(published[o]) :
      i < k => Rank(published[o][i].status) < Rank(published[o][k].status)

\* C16: the first message a connection is sent for an order id is the pending
\* snapshot of its subscribe call; every live event for that id comes after it.
C16_SnapshotFirst ==
  \A s \in Socks, o \in OrderIds :
    InboxOf(s, o) # <<>> => InboxOf(s, o)[1] = Event("pending", o, NoMeta)

C16_Witness ==
  /\ sock[1].subs = <<1>> /\ ~(1 \in sock[1].early)
  /\ Len(InboxOf(1, 1)) >= 2
  /\ InboxOf(1, 1)[2].status = "submitted"

\* the handlers connection s has registered for order o
HandlersOf(s, o) == SelectSeq(listeners[o], LAMBDA h : h.sock = s)
\* the messages connection s is sent in this step
Delivered(s) == SubSeq(sock'[s].inbox, Len(sock[s].inbox) + 1, Len(sock'[s].inbox))
\* the live events among them that are for order o
DeliveredLive(s, o) ==
  SelectSeq(Delivered(s), LAMBDA m : m.orderId = o /\ m.status # "pending")
\* the event published for order o in this step
PublishedNow(o) == published'[o][Len(published'[o])]

\* C17: nothing is buffered or replayed. In every step a connection is sent,
\* for each order id, exactly the event published in that step, once per
\* handler it has registered for the id, and only while it is open; a step
\* that publishes nothing delivers no live event, so an event published before
\* the handler was registered never arrives. Messages already sent stay.
C17_NoBufferNoReplay ==
  [][\A s \in Socks :
       /\ Len(sock'[s].inbox) >= Len(sock[s].inbox)
       /\ SubSeq(sock'[s].inbox, 1, Len(sock[s].inbox)) = sock[s].inbox
       /\ \A o \in OrderIds :
            IF published'[o] # published[o]
            THEN /\ published'[o] = Append(published[o], PublishedNow(o))
                 /\ DeliveredLive(s, o) =
                      [i \in 1..(IF sock[s].readyState = "OPEN"
                                 THEN Len(HandlersOf(s, o)) ELSE 0) |-> PublishedNow(o)]
            ELSE DeliveredLive(s, o) = <<>>]_vars

C17_Witness ==
  /\ sock[1].subs = <<1>> /\ ~(1 \in sock[1].early)
  /\ Len(published[1]) = 4
  /\ Statuses(InboxOf(1, 1)) = <<"pending", "submitted", "confirmed">>

\* C18: connections subscribed to the same order id are independent. An event
\* published for the id is sent to every open connection that has a handler
\* for it; a connection that closes leaves the other connections, their
\* handlers and the order of those handlers as they were.
C18_IndependentSubscribers ==
  [][\A s \in Socks :
       /\ \A o \in OrderIds :
            (published'[o] # published[o] /\ sock[s].readyState = "OPEN"
               /\ HandlersOf(s, o) # <<>>)
              => /\ Len(sock'[s].inbox) > Len(sock[s].inbox)
                 /\ sock'[s].inbox[Len(sock'[s].inbox)] = PublishedNow(o)
       /\ Close(s) =>
            \A t \in Socks \ {s} :
              /\ sock'[t] = sock[t]
              /\ \A o \in OrderIds :
                   SelectSeq(listeners'[o], LAMBDA h : h.sock = t) = HandlersOf(t, o)]_vars

C18_Witness ==
  /\ sock[1].readyState = "CLOSED" /\ sock[2].readyState = "OPEN"
  /\ sock[1].subs = <<1>> /\ sock[2].subs = <<1>>
  /\ Statuses(InboxOf(1, 1)) = <<"pending", "routing">>
  /\ Statuses(InboxOf(2, 1)) = <<"pending", "routing", "building", "submitted", "confirmed">>

\* C19 (as claimed): a closed connection has no handler left on the event bus.
C19_NoHandlerLeftAfterClose ==
  \A s \in Socks :
    sock[s].readyState = "CLOSED" => \A o \in OrderIds : HandlersOf(s, o) = <<>>

\* C20 (as claimed): a connection that was sent confirmed or failed for an
\* order is sent no further status message for that order.
C20_NothingAfterTerminal ==
  \A s \in Socks, o \in OrderIds :
    \A i \in 1..Len(InboxOf(s, o)) :
      InboxOf(s, o)[i].status \in {"confirmed", "failed"} => i = Len(InboxOf(s, o))

C22_ExponentialBackoff ==
  \A j \in OrderIds :
    /\ jobState[j] = "delayed" =>
         /\ attemptsMade[j] \in {1, 2}
         /\ waited[j] + delayed[j] >= (IF attemptsMade[j] = 1 THEN 1000 ELSE 2000)
    /\ (jobState[j] \in {"wait", "active"} /\ attemptsMade[j] >= 1) =>
         waited[j] >= (IF attemptsMade[j] = 1 THEN 1000 ELSE 2000)

C22_Witness ==
  /\ attemptsMade[1] = 2 /\ jobState[1] = "active" /\ waited[1] = 2000

\* C23: no job is dropped. A job leaves the wait list only by being started, a
\* delayed retry leaves the delayed set only for the wait list, and under fair
\* scheduling, whenever a job waits (both gates closed or not), a job is
\* eventually started; the wait list is served in order, so every job is.
C23_NoJobDropped ==
  /\ [][/\ gWait' < gWait => (gWait' = gWait - 1 /\ gActive' = gActive + 1)
        /\ Len(gDelayed') < Len(gDelayed) =>
             (Len(gDelayed') = Len(gDelayed) - 1 /\ gWait' = gWait + 1)]_vars
  /\ \A b \in {0, 1} : (gWait > 0 /\ gStarted = b) ~> (gStarted # b)

C23_Witness ==
  gWait > 0 /\ gActive = Concurrency /\ limCount = LimiterMax /\ gStarted = 0

\* the statuses that may follow status a in the events of one order
FollowsInLifecycle(a, b) ==
  \/ a = "routing" /\ b = "building"
  \/ a = "building" /\ b = "submitted"
  \/ a = "submitted" /\ b \in {"confirmed", "failed"}
  \/ a = "failed" /\ b \in {"failed", "routing"}

\* C24: with store writes failing at any time, the events of an order are those
\* of the lifecycle and nothing else: every attempt publishes routing,
\* building, submitted, then confirmed or failed; a failed event carries the
\* error of the swap and there are two per failed attempt; the catch block is
\* entered, and an attempt counted, only after the swap threw; a completed job
\* has published confirmed. No write, failed or not, adds or removes an event.
C24_StoreFailuresNonFatal ==
  \A o \in OrderIds :
    /\ \A i \in 1..Len(published[o]) :
         /\ i = 1 => published[o][i].status = "routing"
         /\ i > 1 => FollowsInLifecycle(published[o][i - 1].status, published[o][i].status)
         /\ published[o][i].status = "failed" => published[o][i].metadata.error = SwapError
    /\ pc[o] = "updFailed" => res[o] = [error |-> SwapError]
    /\ CountStatus(published[o], "failed")
         = 2 * attemptsMade[o] + (IF pc[o] = "updFailed" THEN 1 ELSE 0)
    /\ CountStatus(published[o], "routing")
         = attemptsMade[o]
             + (IF pc[o] \in {"idle", "saveOrder", "updPending"} /\ jobState[o] # "completed"
                THEN 0 ELSE 1)
    /\ jobState[o] = "completed" =>
         published[o][Len(published[o])].status = "confirmed"
    /\ jobState[o] = "failed" => attemptsMade[o] = Attempts

C24_Witness ==
  /\ ~dbUp /\ db[1] = NoRow
  /\ jobState[1] = "completed" /\ attemptsMade[1] = 1
  /\ Len(published[1]) = 9

\* C25: a processing error reaches the submitter only asynchronously. The reply
\* to a valid submission is 202 and no later step touches it; every failed
\* attempt has published failed with a non-empty error; every record whose
\* persisted status is failed has a non-empty error message.
C25_ErrorsSurfaceAsynchronously ==
  /\ [](\A o \in OrderIds :
         /\ attemptsMade[o] >= 1 =>
              \E i \in 1..Len(published[o]) :
                published[o][i].status = "failed" /\ published[o][i].metadata.error # ""
         /\ (db[o] # NoRow /\ db[o].status = "failed") => db[o].error_message # "")
  /\ [](Len(issued) > 0 => lastReply = Reply202(issued[Len(issued)]))
  /\ [][(\E j \in OrderIds : Process(j, FlatRaydium, FlatMeteora))
         => UNCHANGED <<lastReply, issued>>]_vars

C25_Witness ==
  /\ lastReply.code = 202
  /\ jobState[1] = "failed" /\ attemptsMade[1] = Attempts
  /\ db[1] # NoRow /\ db[1].status = "failed" /\ db[1].error_message = SwapError

\* C26: a valid submission is answered in every state of the worker and the
\* limiter, also with 10 attempts running and 100 starts counted; the step
\* that answers 202 with the order id leaves the job waiting: it starts no
\* attempt and counts no start.
C26_FireAndForget ==
  /\ [](nextId = 1 => ENABLED Submit(SampleBody, 1))
  /\ [][Submit(SampleBody, 1) =>
          /\ lastReply' = Reply202(issued'[Len(issued')])
          /\ jobState'[lastReply'.orderId] = "wait" /\ pc'[lastReply'.orderId] = "idle"
          /\ UNCHANGED <<gActive, limCount, limTtl, published>>]_vars

C26_Witness ==
  /\ lastReply.code = 202 /\ jobState[1] = "wait"
  /\ gActive = Concurrency /\ limCount = LimiterMax /\ gWait > 0

\* the worker has not begun routing order o: no attempt has emitted routing yet
BeforeRouting(o) ==
  jobState[o] # "none" /\ attemptsMade[o] = 0 /\ ~HasStatus(published[o], "routing")

\* C27 (as claimed): from the moment an order is enqueued until the worker
\* begins routing, querying it by id yields the order with status pending.
C27_PendingFromEnqueue ==
  \A o \in OrderIds :
    BeforeRouting(o) => (getOrder(o) # NoRow /\ getOrder(o).status = "pending")

\* C27 (amended): the record of an order is created by the worker's initial
\* save, not at enqueue. Until the job is picked up the query yields not-found;
\* the record appears only in the step that ends saveOrder with the store
\* answering, with status pending and the order's id, and it does so whenever
\* the store answers then; once there it is never removed, and it stays
\* pending until routing begins.
C27_PendingFromFirstSave ==
  /\ [](\A o \in OrderIds : NotPickedUp(o) => getOrder(o) = NoRow)
  /\ [](\A o \in OrderIds :
         (BeforeRouting(o) /\ getOrder(o) # NoRow) => getOrder(o).status = "pending")
  /\ [][\A o \in OrderIds :
          /\ (db[o] = NoRow /\ db'[o] # NoRow) =>
               /\ pc[o] = "saveOrder" /\ dbUp
               /\ db'[o].status = "pending" /\ db'[o].order_id = o
          /\ (pc[o] = "saveOrder" /\ pc'[o] # "saveOrder" /\ dbUp) => db'[o] # NoRow
          /\ db[o] # NoRow => db'[o] # NoRow]_vars

C27_Witness ==
  /\ BeforeRouting(1) /\ pc[1] = "updPending"
  /\ getOrder(1) # NoRow /\ getOrder(1).status = "pending"

\* C28: a row whose status is confirmed carries a transaction id and an executed
\* price; the two are written together or not at all, and only after confirmed
\* was published; a write that persists failed writes neither of them.
C28_AtomicSettlement ==
  /\ [](\A o \in OrderIds : getOrder(o) # NoRow =>
         /\ getOrder(o).status = "confirmed" =>
              (getOrder(o).tx_hash # "" /\ getOrder(o).executed_price # {})
         /\ getOrder(o).tx_hash # "" <=> getOrder(o).executed_price # {}
         /\ getOrder(o).tx_hash # "" => HasStatus(published[o], "confirmed"))
  /\ [][\A o \in OrderIds :
          (db[o] # NoRow /\ db'[o] # db[o] /\ db'[o].status = "failed") =>
            /\ db'[o].tx_hash = db[o].tx_hash
            /\ db'[o].executed_price = db[o].executed_price]_vars

\* one attempt failed and persisted failed without a transaction id, and the
\* retry confirmed and persisted both fields
C28_Witness ==
  /\ getOrder(1) # NoRow /\ getOrder(1).status = "confirmed"
  /\ getOrder(1).tx_hash # "" /\ getOrder(1).executed_price # {}
  /\ getOrder(1).error_message # ""

\* the positions of the decision log that hold an entry of order o
LoggedAt(o) == {i \in 1..Len(logs) : logs[i].orderId = o}

\* C29: logging only appends (the entries already there keep their place and
\* content); getLogs(o) is exactly the entries of o, the k-th of them in the
\* log being the k-th returned; getLogs() is the whole log in insertion order.
C29_AppendOnlyOrdered ==
  /\ [][/\ Len(logs') >= Len(logs)
         /\ SubSeq(logs', 1, Len(logs)) = logs]_vars
  /\ [](\A o \in OrderIds :
         /\ Len(getLogs(o)) = Cardinality(LoggedAt(o))
         /\ \A i \in LoggedAt(o) :
              getLogs(o)[Cardinality({k \in LoggedAt(o) : k <= i})] = logs[i])
  /\ [](getLogs(NoOrderId) = logs)

\* the entries of two orders are interleaved in the log
C29_Witness ==
  /\ Len(logs) >= 4
  /\ logs[1].orderId = 1 /\ logs[2].orderId = 2 /\ logs[3].orderId = 1
  /\ Len(getLogs(1)) >= 2 /\ Len(getLogs(2)) >= 1
  /\ getLogs(1)[2] = logs[3]

\* the status published last for order o
LastPublished(o) == published[o][Len(published[o])].status

\* C30 (as claimed): each status is published before it is persisted, so the
\* persisted status of an order is never ahead of the status published last for
\* it: a row is pending while nothing was published, and afterwards its status
\* is not later in the lifecycle than the last published one.
C30_PersistedNeverAhead ==
  \A o \in OrderIds :
    getOrder(o) # NoRow =>
      IF published[o] = <<>>
      THEN getOrder(o).status = "pending"
      ELSE Rank(getOrder(o).status) <= Rank(LastPublished(o))

\* the attempts of order o that have thrown so far, the one whose catch block
\* is running included
FailedAttempts(o) == attemptsMade[o] + (IF pc[o] = "updFailed" THEN 1 ELSE 0)

\* C31 (as claimed): failed is published exactly once per failed attempt, and
\* nothing is published after it until a retry starts: the failed events of an
\* order are as many as its failed attempts, and the event that follows a
\* failed event is the routing of the next attempt.
C31_FailedOncePerAttempt ==
  \A o \in OrderIds :
    /\ CountStatus(published[o], "failed") = FailedAttempts(o)
    /\ \A i \in 1..(Len(published[o]) - 1) :
         published[o][i].status = "failed" => published[o][i + 1].status = "routing"

\* the statuses published for order o since its last failed event
SinceFailed(o) ==
  LET q == Statuses(published[o])
      F == {i \in 1..Len(q) : q[i] = "failed"}
      k == IF F = {} THEN 0 ELSE CHOOSE i \in F : \A m \in F : m <= i
  IN SubSeq(q, k + 1, Len(q))

\* the events an attempt has published when its processor is at step p
EventsAt(p) ==
  CASE p \in {"saveOrder", "updPending", "updFailed"} -> 0
    [] p \in {"updRouting", "quotes"} -> 1
    [] p = "updBuilding" -> 2
    [] p \in {"updSubmitted", "swap"} -> 3
    [] p = "updConfirmed" -> 4

\* C32: a retried attempt runs the lifecycle from the beginning. It starts at
\* the first statement with no quote, choice or result kept from the attempt
\* before; it writes pending before it publishes routing; what it has
\* published is routing, building, submitted, confirmed up to its own step;
\* its choice is made from the two quotes it fetched itself, and it reaches
\* the settlement call again.
C32_RetryRestarts ==
  /\ [](\A o \in OrderIds : (attemptsMade[o] > 0 /\ pc[o] # "idle") =>
         /\ SinceFailed(o) = SubSeq(Lifecycle, 2, EventsAt(pc[o]) + 1)
         /\ pc[o] \in {"saveOrder", "updPending", "updRouting"} =>
              (rQ[o] = NoQuote /\ mQ[o] = NoQuote)
         /\ pc[o] \in {"saveOrder", "updPending", "updRouting", "quotes"} =>
              (chosen[o] = NoQuote /\ res[o] = NoResult)
         /\ pc[o] \in {"updBuilding", "updSubmitted", "swap"} =>
              (rQ[o] # NoQuote /\ mQ[o] # NoQuote /\ chosen[o] = Choose(rQ[o], mQ[o])))
  /\ [][\A o \in OrderIds : attemptsMade[o] > 0 =>
          /\ (pc[o] = "idle" /\ pc'[o] # "idle") => pc'[o] = "saveOrder"
          /\ (pc[o] = "updPending" /\ pc'[o] # "updPending" /\ db[o] # NoRow) =>
               /\ db'[o].status = "pending"
               /\ PublishedNow(o).status = "routing"
               /\ Len(published'[o]) = Len(published[o]) + 1]_vars

\* the first attempt chose meteora and reached the settlement call; the retry
\* fetched other quotes, chose raydium and is at the settlement call again
C32_Witness ==
  /\ attemptsMade[1] = 1 /\ pc[1] = "swap"
  /\ Len(Comparisons(1)) = 2
  /\ Comparisons(1)[1].data.chosen = "meteora"
  /\ chosen[1].dex = "raydium"

QuoteMissing(o) == pc[o] = "quotes" /\ (rQ[o] = NoQuote \/ mQ[o] = NoQuote)

\* C34: an attempt publishes building, and has a chosen venue, only when both
\* of its quote calls have completed, and the choice is one of the two quotes.
\* While a quote is missing the attempt has chosen nothing and routing is its
\* last event, and every step in which no quote arrives leaves the attempt
\* where it is: nothing is published, chosen or logged for it, the job stays
\* active and no timer ends the wait.
C34_WaitsForBothQuotes ==
  /\ [](\A o \in OrderIds :
         /\ pc[o] \in {"updBuilding", "updSubmitted", "swap", "updConfirmed"} =>
              (rQ[o] # NoQuote /\ mQ[o] # NoQuote /\ chosen[o] \in {rQ[o], mQ[o]})
         /\ QuoteMissing(o) =>
              (chosen[o] = NoQuote /\ LastPublished(o) = "routing"))
  /\ [][\A o \in OrderIds :
          /\ (Len(published'[o]) > Len(published[o]) /\ PublishedNow(o).status = "building")
               => (rQ[o] # NoQuote /\ mQ[o] # NoQuote)
          /\ (QuoteMissing(o) /\ rQ'[o] = rQ[o] /\ mQ'[o] = mQ[o]) =>
               /\ pc'[o] = "quotes" /\ jobState'[o] = "active"
               /\ published'[o] = published[o] /\ chosen'[o] = NoQuote
               /\ getLogs(o)' = getLogs(o)]_vars

\* the raydium quote of a retry has arrived, the meteora quote has not
C34_Witness ==
  /\ attemptsMade[1] = 1 /\ QuoteMissing(1)
  /\ rQ[1] # NoQuote /\ mQ[1] = NoQuote
  /\ chosen[1] = NoQuote /\ LastPublished(1) = "routing"

\* the settlement calls issued for order o: each is logged just before it
SettlementCalls(o) ==
  Len(SelectSeq(getLogs(o), LAMBDA l : l.event = "Transaction submitted to network"))

\* C35: an order is settled successfully at most once. A job whose settlement
\* call returned is completed and stays so: its processor never runs again and
\* nothing more is published for it; confirmed is published at most once, and
\* at most 3 settlement calls are issued, one per attempt.
C35_SettlesAtMostOnce ==
  /\ [](\A o \in OrderIds :
         /\ CountStatus(published[o], "confirmed") <= 1
         /\ SettlementCalls(o) <= Attempts
         /\ SettlementCalls(o) <= attemptsMade[o] + 1
         /\ jobState[o] = "completed" =>
              (pc[o] = "idle" /\ CountStatus(published[o], "confirmed") = 1
               /\ LastPublished(o) = "confirmed"))
  /\ [][\A o \in OrderIds :
          (jobState[o] = "completed" \/ pc[o] = "updConfirmed") =>
            /\ jobState'[o] \in {jobState[o], "completed"}
            /\ pc'[o] \in {pc[o], "idle"}
            /\ published'[o] = published[o]
            /\ SettlementCalls(o)' = SettlementCalls(o)]_vars

\* two settlement calls failed, the third returned and the job is completed
C35_Witness ==
  /\ jobState[1] = "completed" /\ attemptsMade[1] = Attempts - 1
  /\ SettlementCalls(1) = Attempts
  /\ CountStatus(published[1], "confirmed") = 1

\* the k-th last event published for order o
Recent(o, k) == published[o][Len(published[o]) - k]

\* C36: within an attempt the venue is the one its comparison selected. From
\* the choice on, the attempt's chosen quote is Choose of its two quotes and
\* does not change; the decision log, the building event (with the price), the
\* submitted event, the row written at building, the settlement call in flight
\* and the confirmed event all name that venue.
C36_VenueFixed ==
  /\ [](\A o \in OrderIds :
         LET c == Choose(rQ[o], mQ[o])
             n == Len(Comparisons(o))
         IN
         /\ pc[o] \in {"updBuilding", "updSubmitted", "swap", "updConfirmed"} =>
              /\ chosen[o] = c
              /\ Comparisons(o)[n].data.chosen = c.dex
         /\ pc[o] = "updBuilding" =>
              /\ Recent(o, 0).status = "building"
              /\ Recent(o, 0).metadata = [dex |-> c.dex, price |-> c.price]
         /\ pc[o] \in {"updSubmitted", "swap"} =>
              /\ Recent(o, 1).status = "building" /\ Recent(o, 1).metadata.dex = c.dex
              /\ Recent(o, 0).status = "submitted" /\ Recent(o, 0).metadata.dex = c.dex
              /\ getOrder(o).chosen_dex = c.dex
         /\ pc[o] = "updConfirmed" =>
              /\ Recent(o, 2).status = "building" /\ Recent(o, 2).metadata.dex = c.dex
              /\ Recent(o, 1).status = "submitted" /\ Recent(o, 1).metadata.dex = c.dex
              /\ Recent(o, 0).status = "confirmed" /\ Recent(o, 0).metadata.dex = c.dex
              /\ getOrder(o).chosen_dex = c.dex
         /\ jobState[o] = "completed" =>
              /\ Recent(o, 0).status = "confirmed"
              /\ Recent(o, 0).metadata.dex = getOrder(o).chosen_dex
              /\ Recent(o, 0).metadata.dex = Comparisons(o)[n].data.chosen)
  /\ [][\A o \in OrderIds :
          (pc[o] \in {"updBuilding", "updSubmitted", "swap"} /\ pc'[o] # "idle")
            => chosen'[o] = chosen[o]]_vars

\* the first attempt chose meteora and wrote it; the retry chose raydium, has
\* overwritten the row and is confirmed on raydium
C36_Witness ==
  /\ attemptsMade[1] = 1 /\ pc[1] = "updConfirmed"
  /\ Comparisons(1)[1].data.chosen = "meteora"
  /\ chosen[1].dex = "raydium" /\ getOrder(1).chosen_dex = "raydium"
  /\ Recent(1, 0).metadata.dex = "raydium"

\* the fields of a row that come from the order
OrderFields(row) == <<row.order_id, row.token_in, row.token_out, row.amount, row.order_type>>

\* C37: an update leaves alone what it is not given. The fields of the order
\* never change; chosen_dex changes only in the write of building, tx_hash and
\* executed_price only in the write of confirmed, error_message only in a
\* write of failed, and none of them is ever cleared: the error of a failed
\* attempt is still on the row when a retry is confirmed, and the venue is
\* still there after a write of failed.
C37_UpdateFrame ==
  [][\A o \in OrderIds : db[o] # NoRow =>
       /\ db'[o] # NoRow
       /\ OrderFields(db'[o]) = OrderFields(db[o])
       /\ db'[o].chosen_dex # db[o].chosen_dex =>
            (db'[o].status = "building" /\ db'[o].chosen_dex # "")
       /\ db'[o].tx_hash # db[o].tx_hash =>
            (db'[o].status = "confirmed" /\ db'[o].tx_hash # "")
       /\ db'[o].executed_price # db[o].executed_price =>
            (db'[o].status = "confirmed" /\ db'[o].executed_price # {})
       /\ db'[o].error_message # db[o].error_message =>
            (db'[o].status = "failed" /\ db'[o].error_message # "")]_vars

\* the retry is confirmed and the row still carries the first attempt's error
C37_Witness ==
  /\ jobState[1] = "completed" /\ attemptsMade[1] = 1
  /\ getOrder(1) # NoRow /\ getOrder(1).status = "confirmed"
  /\ getOrder(1).error_message = SwapError /\ getOrder(1).chosen_dex # ""

\* the order ids connection s has subscribed to
SubscribedTo(s) == {sock[s].subs[k] : k \in 1..Len(sock[s].subs)}

\* the order for which an event is published in this step, if any
Publishing(o) == Len(published'[o]) > Len(published[o])

\* C38: events never cross orders. Every message in a connection's inbox
\* carries an order id the connection subscribed to and is the snapshot or an
\* event that was published for that very order; in a step that publishes an
\* event for order o the messages of every other order stay as they were on
\* every connection, a connection with no handler under o is sent nothing, and
\* what is sent is the event published for o.
C38_NoCrossDelivery ==
  /\ [](\A s \in Socks : \A i \in 1..Len(sock[s].inbox) :
         LET m == sock[s].inbox[i] IN
           /\ m.orderId \in SubscribedTo(s)
           /\ \/ m = Event("pending", m.orderId, NoMeta)
              \/ \E k \in 1..Len(published[m.orderId]) : published[m.orderId][k] = m)
  /\ [][\A o \in OrderIds : Publishing(o) =>
          \A s \in Socks :
            /\ \A o2 \in OrderIds \ {o} : InboxOf(s, o2)' = InboxOf(s, o2)
            /\ HandlersOf(s, o) = <<>> => sock'[s].inbox = sock[s].inbox
            /\ \A i \in (Len(sock[s].inbox) + 1)..Len(sock'[s].inbox) :
                 sock'[s].inbox[i] = PublishedNow(o)]_vars

\* two connections, one per order: each has been sent the events of its own
\* order while the other order was publishing too
C38_Witness ==
  /\ SubscribedTo(1) = {1} /\ SubscribedTo(2) = {2}
  /\ Len(published[1]) >= 2 /\ Len(published[2]) >= 2
  /\ Len(InboxOf(1, 1)) >= 3 /\ Len(InboxOf(2, 2)) >= 3

\* the job of order o has ended: nothing more will be published for it
Finished(o) ==
  \/ jobState[o] = "completed"
  \/ jobState[o] = "failed" /\ attemptsMade[o] = Attempts

\* connection s handles a subscribe message in this step
Subscribing(s) == Len(sock'[s].subs) > Len(sock[s].subs)

\* C39: the snapshot is {status: pending} for the id of the subscribe message
\* whatever the state of the order: in every subscribe step exactly that one
\* message is sent, be the order unknown, queued, running, confirmed or
\* failed. For an id that was never submitted, and for an order whose job has
\* ended, nothing is published any more, so a connection that subscribes then
\* is sent the snapshot and nothing else.
C39_SnapshotIgnoresState ==
  /\ [][\A s \in Socks :
          /\ Subscribing(s) =>
               Delivered(s) = <<Event("pending", sock'[s].subscribedId, NoMeta)>>
          /\ \A o \in OrderIds : (Finished(o) \/ jobState[o] = "none") =>
               /\ published'[o] = published[o]
               /\ Finished(o) => Finished(o)'
               /\ InboxOf(s, o)' =
                    IF Subscribing(s) /\ sock'[s].subscribedId = o
                    THEN Append(InboxOf(s, o), Event("pending", o, NoMeta))
                    ELSE InboxOf(s, o)]_vars
  /\ [](\A s \in Socks, o \in OrderIds : jobState[o] = "none" =>
         \A i \in 1..Len(InboxOf(s, o)) : InboxOf(s, o)[i].status = "pending")

\* the order is confirmed and its row says so; a connection that subscribed
\* after the last event holds the pending snapshot and nothing else
C39_Witness ==
  /\ jobState[1] = "completed" /\ getOrder(1).status = "confirmed"
  /\ Len(published[1]) >= 4
  /\ sock[1].inbox = <<Event("pending", 1, NoMeta)>>

====
